---- MODULE Spec2Model ----
(***************************************************************************)
(* A model of the per-connection FTP protocol engine of graval:            *)
(* ftpConn (src/ftpconn.go), the command table and its handlers            *)
(* (src/commands.go) and the data sockets (src/ftplogger.go, lines         *)
(* 117-303).  Strings are sequences of one-character strings, so that      *)
(* path cleaning and trimming are computed, not assumed.                   *)
(***************************************************************************)
EXTENDS Integers, Sequences, FiniteSets, TLC

(***************************************************************************)
(* Strings                                                                 *)
(***************************************************************************)
Empty == << >>

SL == "/"

Root == <<SL>>

DotDot == <<".", ".">>

Dot == <<".">>

\* strings.TrimSpace on a parameter: leading and trailing blanks go
RECURSIVE TrimLeft(_)
TrimLeft(s) ==
    IF s # Empty /\ Head(s) = " " THEN TrimLeft(Tail(s)) ELSE s

RECURSIVE TrimRight(_)
TrimRight(s) ==
    IF s # Empty /\ s[Len(s)] = " "
    THEN TrimRight(SubSeq(s, 1, Len(s) - 1))
    ELSE s

TrimSpace(s) == TrimRight(TrimLeft(s))

\* the components of a path between its slashes (empty components kept)
RECURSIVE SplitSlash(_, _, _)
SplitSlash(s, cur, acc) ==
    IF s = Empty THEN Append(acc, cur)
    ELSE IF Head(s) = SL THEN SplitSlash(Tail(s), Empty, Append(acc, cur))
    ELSE SplitSlash(Tail(s), Append(cur, Head(s)), acc)

Components(s) == SplitSlash(s, Empty, << >>)

\* a variant: "." is kept as if it were a name
RECURSIVE CleanCompsKeepDot(_, _, _)
CleanCompsKeepDot(cs, out, rooted) ==
    IF cs = << >> THEN out
    ELSE LET c == Head(cs)
             rest == Tail(cs)
         IN  IF c = Empty THEN CleanCompsKeepDot(rest, out, rooted)
             ELSE IF c = DotDot
             THEN IF out # << >> /\ out[Len(out)] # DotDot
                  THEN CleanCompsKeepDot(rest, SubSeq(out, 1, Len(out) - 1), rooted)
                  ELSE IF rooted THEN CleanCompsKeepDot(rest, out, rooted)
                  ELSE CleanCompsKeepDot(rest, Append(out, c), rooted)
             ELSE CleanCompsKeepDot(rest, Append(out, c), rooted)

\* a variant: ".." at the root of a rooted path is kept, as it is at the
\* front of a relative one
RECURSIVE CleanCompsRootEscapes(_, _, _)
CleanCompsRootEscapes(cs, out, rooted) ==
    IF cs = << >> THEN out
    ELSE LET c == Head(cs)
             rest == Tail(cs)
         IN  IF c = Empty \/ c = Dot THEN CleanCompsRootEscapes(rest, out, rooted)
             ELSE IF c = DotDot
             THEN IF out # << >> /\ out[Len(out)] # DotDot
                  THEN CleanCompsRootEscapes(rest, SubSeq(out, 1, Len(out) - 1), rooted)
                  ELSE CleanCompsRootEscapes(rest, Append(out, c), rooted)
             ELSE CleanCompsRootEscapes(rest, Append(out, c), rooted)

\* the lexical processing of filepath.Clean: "" and "." are dropped, ".."
\* removes the component before it, is dropped at the root of a rooted
\* path and is kept at the front of a relative one
RECURSIVE CleanComps(_, _, _)
CleanComps(cs, out, rooted) ==
    IF cs = << >> THEN out
    ELSE LET c == Head(cs)
             rest == Tail(cs)
         IN  IF c = Empty \/ c = Dot THEN CleanComps(rest, out, rooted)
             ELSE IF c = DotDot
             THEN IF out # << >> /\ out[Len(out)] # DotDot
                  THEN CleanComps(rest, SubSeq(out, 1, Len(out) - 1), rooted)
                  ELSE IF rooted THEN CleanComps(rest, out, rooted)
                  ELSE CleanComps(rest, Append(out, c), rooted)
             ELSE CleanComps(rest, Append(out, c), rooted)

RECURSIVE JoinSlash(_)
JoinSlash(cs) ==
    IF cs = << >> THEN Empty
    ELSE IF Len(cs) = 1 THEN Head(cs)
    ELSE Head(cs) \o <<SL>> \o JoinSlash(Tail(cs))

\* filepath.Clean on a slash-separated path
Clean(p) ==
    IF p = Empty THEN Dot
    ELSE LET rooted == Head(p) = SL
             out == CleanComps(Components(p), << >>, rooted)
         IN  IF rooted THEN <<SL>> \o JoinSlash(out)
             ELSE IF out = << >> THEN Dot
             ELSE JoinSlash(out)

\* strings.Replace(s, "//", "/", -1): non-overlapping, left to right
RECURSIVE ReplaceDoubleSlash(_)
ReplaceDoubleSlash(s) ==
    IF Len(s) < 2 THEN s
    ELSE IF s[1] = SL /\ s[2] = SL
    THEN <<SL>> \o ReplaceDoubleSlash(SubSeq(s, 3, Len(s)))
    ELSE <<Head(s)>> \o ReplaceDoubleSlash(Tail(s))

\* a variant: the paths joined and never cleaned
buildPathJoinOnly(prefix, filename) ==
    LET fullPath ==
            IF Len(filename) > 0 /\ Head(filename) = SL THEN filename
            ELSE IF Len(filename) > 0 THEN prefix \o <<SL>> \o filename
            ELSE prefix
    IN  ReplaceDoubleSlash(fullPath)

\* ftpConn.buildPath
buildPath(prefix, filename) ==
    LET fullPath ==
            IF Len(filename) > 0 /\ Head(filename) = SL THEN Clean(filename)
            ELSE IF Len(filename) > 0 THEN Clean(prefix \o <<SL>> \o filename)
            ELSE Clean(prefix)
    IN  ReplaceDoubleSlash(fullPath)


(***************************************************************************)
(* Numbers in parameters                                                   *)
(***************************************************************************)
Digits == <<"0", "1", "2", "3", "4", "5", "6", "7", "8", "9">>

IsDigit(c) == \E i \in 1..10 : Digits[i] = c

DigitVal(c) == (CHOOSE i \in 1..10 : Digits[i] = c) - 1

RECURSIVE DecVal(_, _)
DecVal(s, acc) ==
    IF s = Empty THEN acc ELSE DecVal(Tail(s), 10 * acc + DigitVal(Head(s)))

AllDigits(s) == s # Empty /\ \A i \in 1..Len(s) : IsDigit(s[i])

\* strconv.ParseUint(s, 10, 16): -1 stands for the error it returns
ParseUint16(s) ==
    IF AllDigits(s) /\ DecVal(s, 0) < 65536 THEN DecVal(s, 0) ELSE -1

\* strconv.Atoi: an optional sign, then digits; "err" marks the error
Atoi(s) ==
    LET body == IF s # Empty /\ Head(s) \in {"+", "-"} THEN Tail(s) ELSE s
    IN  IF ~AllDigits(body) THEN [ok |-> FALSE, v |-> 0]
        ELSE [ok |-> TRUE,
              v |-> IF s # Empty /\ Head(s) = "-" THEN 0 - DecVal(body, 0)
                    ELSE DecVal(body, 0)]

\* strings.Split(s, sep) for a one-character separator
RECURSIVE SplitOn(_, _, _, _)
SplitOn(s, sep, cur, acc) ==
    IF s = Empty THEN Append(acc, cur)
    ELSE IF Head(s) = sep THEN SplitOn(Tail(s), sep, Empty, Append(acc, cur))
    ELSE SplitOn(Tail(s), sep, Append(cur, Head(s)), acc)

Split(s, sep) == SplitOn(s, sep, Empty, << >>)

\* fmt's %d of a number that is not negative
RECURSIVE Itoa(_)
Itoa(n) ==
    IF n < 10 THEN <<Digits[n + 1]>>
    ELSE Itoa(n \div 10) \o <<Digits[(n % 10) + 1]>>

\* a variant: the low byte of the port taken modulo 255
PasvTargetMod255(advertised, listenIP, port) ==
    LET p1 == port \div 256
        p2 == port % 255
        host == IF advertised = Empty THEN listenIP ELSE advertised
        quads == Split(host, ".")
    IN  <<"(">> \o quads[1] \o <<",">> \o quads[2] \o <<",">> \o quads[3]
        \o <<",">> \o quads[4] \o <<",">> \o Itoa(p1) \o <<",">> \o Itoa(p2)
        \o <<")">>

\* the target commandPasv.Execute formats into its 227: the quads of the
\* advertised IP, or of the listen IP when none is configured, then
\* p1 := port / 256 and p2 := port - p1*256 in uint16
PasvTarget(advertised, listenIP, port) ==
    LET p1 == port \div 256
        p2 == (port - (p1 * 256)) % 65536
        host == IF advertised = Empty THEN listenIP ELSE advertised
        quads == Split(host, ".")
    IN  <<"(">> \o quads[1] \o <<",">> \o quads[2] \o <<",">> \o quads[3]
        \o <<",">> \o quads[4] \o <<",">> \o Itoa(p1) \o <<",">> \o Itoa(p2)
        \o <<")">>

\* the target commandEpsv.Execute formats into its 229
EpsvTarget(port) == <<"(", "|", "|", "|">> \o Itoa(port) \o <<"|", ")">>

(***************************************************************************)
(* The command table                                                       *)
(***************************************************************************)
commands ==
    [ALLO |-> "Allo", CDUP |-> "Cdup", CWD |-> "Cwd", DELE |-> "Dele",
     EPRT |-> "Eprt", EPSV |-> "Epsv", FEAT |-> "Feat", LIST |-> "List",
     NLST |-> "Nlst", MDTM |-> "Mdtm", MKD |-> "Mkd", MODE |-> "Mode",
     NOOP |-> "Noop", OPTS |-> "Opts", PASS |-> "Pass", PASV |-> "Pasv",
     PORT |-> "Port", PWD |-> "Pwd", QUIT |-> "Quit", RETR |-> "Retr",
     RNFR |-> "Rnfr", RNTO |-> "Rnto", RMD |-> "Rmd", SIZE |-> "Size",
     STOR |-> "Stor", STRU |-> "Stru", SYST |-> "Syst", TYPE |-> "Type",
     USER |-> "User", XCUP |-> "Cdup", XCWD |-> "Cwd", XPWD |-> "Pwd",
     XRMD |-> "Rmd"]

RequireParam(h) ==
    h \in {"Cwd", "Dele", "Eprt", "Mdtm", "Mkd", "Mode", "Pass", "Port",
           "Retr", "Rnfr", "Rnto", "Rmd", "Size", "Stor", "Stru", "User"}

RequireAuth(h) == h \notin {"Allo", "Feat", "Noop", "Pass", "Quit", "User"}

\* ftpConn.parseLine: the token before the first space, as written, and the
\* trimmed rest
parseLine(l) == [command |-> l.tok, param |-> TrimSpace(l.arg)]

\* a plausible slip: the login check placed before the parameter check
GateAuthFirst(command, param, u) ==
    IF command \notin DOMAIN commands THEN "500"
    ELSE IF RequireAuth(commands[command]) /\ u = Empty THEN "530"
    ELSE IF RequireParam(commands[command]) /\ param = Empty THEN "553"
    ELSE "exec"

\* a plausible slip: the login check left out
GateNoAuth(command, param, u) ==
    IF command \notin DOMAIN commands THEN "500"
    ELSE IF RequireParam(commands[command]) /\ param = Empty THEN "553"
    ELSE "exec"

\* the checks of ftpConn.receiveLine before Execute, in the code's order
Gate(command, param, u) ==
    IF command \notin DOMAIN commands THEN "500"
    ELSE IF RequireParam(commands[command]) /\ param = Empty THEN "553"
    ELSE IF RequireAuth(commands[command]) /\ u = Empty THEN "530"
    ELSE "exec"


(***************************************************************************)
(* Bounds and inputs                                                       *)
(***************************************************************************)
\* data sockets one session opens
MaxSockets == 2

\* command lines one read of the control connection can bring into the
\* reader's buffer
MaxPipeline == 2

\* components of the longest working directory
MaxDepth == 1

Uname == <<"u">>

Pw == <<"x">>

PathArgs ==
    {Empty, <<" ">>, <<"a">>, <<SL, "a">>, DotDot, Dot,
     <<"a", SL>>, <<".", SL, "a">>, <<"a", SL, SL, "a">>,
     <<SL, ".", ".", SL, ".", ".", SL, "a">>, <<".", ".", SL, ".", ".", SL, "a">>}

PortArgs ==
    {Empty,
     <<"1", ",", "2">>,
     <<"1", ",", "1", ",", "1", ",", "1", ",", "x", ",", "2">>,
     <<"1", ",", "1", ",", "1", ",", "1", ",", "1", ",", "2">>}

EprtArgs ==
    {Empty,
     <<"|", "1", "|", "h">>,
     <<"|", "x", "|", "h", "|", "9", "|">>,
     <<"|", "1", "|", "h", "|", "x", "|">>,
     <<"|", "1", "|", "h", "|", "9", "|">>,
     <<"|", "3", "|", "h", "|", "9", "|">>,
     <<"|", "3", "|", "h", "|", "x", "|">>}

ArgsOf(tok) ==
    CASE tok = "USER" -> {Empty, Uname}
      [] tok = "PASS" -> {Empty, Pw}
      [] tok \in {"CWD", "XCWD"} -> PathArgs
      [] tok \in {"RNFR", "RNTO"} -> {Empty, <<SL, "a">>}
      [] tok \in {"DELE", "MKD", "RMD", "XRMD", "SIZE", "MDTM", "RETR", "STOR"}
            -> {Empty, <<"a">>}
      [] tok \in {"LIST", "NLST"} -> {Empty, <<"-", "a">>, <<"a">>}
      [] tok = "PORT" -> PortArgs
      [] tok = "EPRT" -> EprtArgs
      [] tok = "TYPE" -> {Empty, <<"A">>, <<"i">>, <<"X">>}
      [] tok = "MODE" -> {Empty, <<"s">>, <<"X">>}
      [] tok = "STRU" -> {Empty, <<"F">>, <<"X">>}
      [] tok = "OPTS" -> {Empty, <<"U", "T", "F", "8">>}
      [] OTHER -> {Empty, <<"a">>}

\* tokens a client sends: the table's, one unknown and one in lower case
Tokens == DOMAIN commands \cup {"FOO", "pwd"}

Lines == UNION {{[tok |-> t, arg |-> a] : a \in ArgsOf(t)} : t \in Tokens}

\* lines a client sends behind another without waiting for the reply, and
\* the commands it sends them behind
PipelineHeads == {"QUIT", "PASS"}

Pipelined ==
    {[tok |-> "PASS", arg |-> Pw], [tok |-> "DELE", arg |-> <<"a">>]}

RECURSIVE SeqsUpTo(_, _)
SeqsUpTo(S, n) ==
    IF n = 0 THEN {<< >>}
    ELSE LET shorter == SeqsUpTo(S, n - 1)
         IN  shorter \cup {Append(q, x) : q \in shorter, x \in S}

Rests == SeqsUpTo(Pipelined, MaxPipeline - 1)

Handlers == {commands[t] : t \in DOMAIN commands}

\* the lines receiveLine looks up to handler h
LinesOf == [h \in Handlers |-> {l \in Lines : l.tok \in DOMAIN commands /\ commands[l.tok] = h}]

Bool3 == {"true", "false", "err"}

\* the address the control connection was accepted on, and the IP the
\* server is configured to advertise in 227 (none)
localIP == <<"1", "2", "7", ".", "0", ".", "0", ".", "1">>

pasvAdvertisedIp == Empty

\* the range of passive ports the server is configured with
minDataPort == 2121

maxDataPort == 2123

\* the values of rand.Intn(n) the model draws: the least, the next and the
\* greatest
Draws(n) == {r \in {0, 1, n - 1} : r >= 0 /\ r < n}

\* the argument randomPort gives rand.Intn: max-min-1 in uint16, widened
IntnArg(min, max) == (max - min - 1) % 65536

\* randomPort(min, max), r being what rand.Intn returned
randomPort(min, max, r) ==
    IF min = 0 /\ max = 0 THEN 0 ELSE (min + r) % 65536

\* the ports netListenerInRange asks for under the configured range
Ports ==
    {randomPort(minDataPort, maxDataPort, r) :
        r \in Draws(IntnArg(minDataPort, maxDataPort))}

Depth(path) == Len(CleanComps(Components(path), << >>, TRUE))

(***************************************************************************)
(* State                                                                   *)
(***************************************************************************)
VARIABLES
    user,        \* ftpConn.user
    reqUser,     \* ftpConn.reqUser
    namePrefix,  \* ftpConn.namePrefix
    renameFrom,  \* ftpConn.renameFrom
    dataConn,    \* ftpConn.dataConn: 0 is nil, else an index of socks
    socks,       \* every data socket the session has constructed
    ctl,         \* ftpConn.conn: "open" or "closed"
    buf,         \* complete lines in controlReader's buffer
    pc,          \* where the worker running Serve is
    retries,     \* waitForOpenSocket's counter
    line,        \* the line receiveLine was last called with
    ev,          \* what the handling of that line has done so far
    calc,        \* a function of the program taken by itself: its name,
                 \* its arguments and what it has computed so far
    seen         \* history of the lines handled before the one in hand:
                 \* whether the last one executed RNFR, and whether a USER
                 \* has executed since the last executed PASS, with its
                 \* parameter

vars == <<user, reqUser, namePrefix, renameFrom, dataConn, socks, ctl, buf,
          pc, retries, line, ev, calc, seen>>

\* the session runs, no function is taken by itself
NoCalc == [f |-> "none"]

fields == <<user, reqUser, namePrefix, renameFrom, dataConn>>

NoLine == [tok |-> "", arg |-> Empty]

\* nothing was handled yet
NoneSeen == [rnfr |-> FALSE, user |-> FALSE, name |-> Empty]

\* the history once line l is taken up by a session whose user is u
Seen(l, u, sn) ==
    LET h == IF Gate(parseLine(l).command, parseLine(l).param, u) = "exec"
             THEN commands[parseLine(l).command] ELSE "none"
    IN  [rnfr |-> h = "Rnfr",
         user |-> IF h = "User" THEN TRUE ELSE IF h = "Pass" THEN FALSE ELSE sn.user,
         name |-> IF h = "User" THEN parseLine(l).param
                  ELSE IF h = "Pass" THEN Empty ELSE sn.name]

Event(t, op, n, p, s) == [t |-> t, op |-> op, n |-> n, p |-> p, s |-> s]

\* ftpConn.writeMessage / writeLines: a write on a control connection this
\* side has closed fails
Reply(c, code) ==
    Event("reply", IF c = "open" THEN "sent" ELSE "failed", code, 0, << >>)

ReplyPort(c, code, port) ==
    Event("reply", IF c = "open" THEN "sent" ELSE "failed", code, port, << >>)

ReplyText(c, code, port, text) ==
    Event("reply", IF c = "open" THEN "sent" ELSE "failed", code, port, <<text>>)

Driver(op, args) == Event("driver", op, 0, 0, args)

\* ftpActiveSocket.Close closes the connection; ftpPassiveSocket.Close
\* closes the accepted connection and does nothing when there is none yet
SocketClose(sk) ==
    IF sk.kind = "passive" /\ sk.conn = "nil" THEN sk
    ELSE [sk EXCEPT !.conn = "closed"]

CloseEvent(ss, id) ==
    Event("close_data",
          IF ss[id].kind = "passive" /\ ss[id].conn = "nil"
          THEN "noop" ELSE "closed",
          0, 0, << >>)

\* ftpConn.Close: the control connection, then the data socket if any
ConnClose(dc, ss) ==
    [ev |-> <<Event("close_ctl", "", 0, 0, << >>)>>
            \o (IF dc # 0 THEN <<CloseEvent(ss, dc)>> ELSE << >>),
     socks |-> IF dc # 0 THEN [ss EXCEPT ![dc] = SocketClose(ss[dc])] ELSE ss]

newFtpConn ==
    /\ user = Empty
    /\ reqUser = Empty
    /\ namePrefix = Root
    /\ renameFrom = Empty
    /\ dataConn = 0
    /\ socks = << >>
    /\ ctl = "open"
    /\ buf = << >>
    /\ pc = "greet"
    /\ retries = 0
    /\ line = NoLine
    /\ ev = << >>
    /\ seen = NoneSeen

Init == newFtpConn /\ calc = NoCalc

(***************************************************************************)
(* Serve: the greeting, the read loop and the deferred Close               *)
(***************************************************************************)
\* the 220 greeting is written and the loop is entered
Greet ==
    /\ pc = "greet"
    /\ ctl = "open"
    /\ pc' = "handled"
    /\ ev' = <<Reply(ctl, 220)>>
    /\ UNCHANGED <<fields, socks, ctl, buf, retries, line, calc, seen>>

\* the greeting cannot be written: Serve returns through its deferred Close
GreetFail ==
    /\ pc = "greet"
    /\ pc' = "done"
    /\ ctl' = "closed"
    /\ ev' = <<Event("reply", "failed", 220, 0, << >>)>>
             \o ConnClose(dataConn, socks).ev
    /\ socks' = ConnClose(dataConn, socks).socks
    /\ UNCHANGED <<fields, buf, retries, line, calc, seen>>

\* ReadString fails (the client is gone, or this side closed the
\* connection and the buffer holds no complete line): the loop is left and
\* the deferred Close runs
ReadError ==
    /\ pc = "read"
    /\ buf = << >>
    /\ pc' = "done"
    /\ ctl' = "closed"
    /\ ev' = ConnClose(dataConn, socks).ev
    /\ socks' = ConnClose(dataConn, socks).socks
    /\ line' = NoLine
    /\ UNCHANGED <<fields, buf, retries, calc, seen>>

\* receiveLine returns to the loop in Serve (a returned error is logged)
LoopBack ==
    /\ pc = "handled"
    /\ pc' = "read"
    /\ line' = NoLine
    /\ ev' = << >>
    /\ UNCHANGED <<fields, socks, ctl, buf, retries, calc, seen>>

\* a handler returns to receiveLine
Handled == pc' = "handled" /\ retries' = retries /\ calc' = calc

\* ReadString returns line l: from the buffer when it holds one, else from
\* the open connection, which may bring further lines into the buffer
Fetch(l, rest) ==
    /\ pc = "read"
    /\ IF buf # << >>
       THEN l = Head(buf) /\ rest = Tail(buf)
       ELSE ctl = "open" /\ (rest = << >> \/ l.tok \in PipelineHeads)
    /\ line' = l
    /\ buf' = rest
    /\ seen' = Seen(l, user, seen)

\* receiveLine reaches Execute of handler h
Exec(l, rest, h) ==
    /\ Fetch(l, rest)
    /\ Gate(parseLine(l).command, parseLine(l).param, user) = "exec"
    /\ commands[parseLine(l).command] = h

Param(l) == parseLine(l).param

\* receiveLine's three early replies
Reject ==
    pc = "read" /\ \E l \in Lines, rest \in Rests :
        /\ Fetch(l, rest)
        /\ Gate(parseLine(l).command, Param(l), user) # "exec"
        /\ ev' = <<Reply(ctl, CASE Gate(parseLine(l).command, Param(l), user) = "500" -> 500
                                [] Gate(parseLine(l).command, Param(l), user) = "553" -> 553
                                [] OTHER -> 530)>>
        /\ Handled /\ UNCHANGED <<fields, socks, ctl>>

(***************************************************************************)
(* Handlers that only reply                                                *)
(***************************************************************************)
\* the reply code of a handler that touches no state and calls no driver
FixedReply(h, param) ==
    CASE h = "Allo" -> 202
      [] h = "Feat" -> 211
      [] h = "Noop" -> 200
      [] h = "Syst" -> 215
      [] h = "Pwd" -> 257
      [] h = "Mode" -> IF param \in {<<"S">>, <<"s">>} THEN 200 ELSE 504
      [] h = "Stru" -> IF param \in {<<"F">>, <<"f">>} THEN 200 ELSE 504
      [] h = "Type" -> IF param \in {<<"A">>, <<"a">>, <<"I">>, <<"i">>}
                       THEN 200 ELSE 500
      [] h = "Opts" -> IF param \in {<<"U", "T", "F", "8", " ", "O", "N">>,
                                     <<"U", "T", "F", "8">>}
                       THEN 200 ELSE 500

ReplyOnly ==
    pc = "read" /\ \E h \in {"Allo", "Feat", "Noop", "Syst", "Pwd", "Mode", "Stru", "Type", "Opts"},
       rest \in Rests :
      pc = "read" /\ \E l \in LinesOf[h] :
        /\ Exec(l, rest, h)
        /\ ev' = <<Reply(ctl, FixedReply(h, Param(l)))>>
        /\ Handled /\ UNCHANGED <<fields, socks, ctl>>

(***************************************************************************)
(* USER, PASS, QUIT                                                        *)
(***************************************************************************)
commandUser ==
    pc = "read" /\ \E l \in LinesOf["User"], rest \in Rests :
        /\ Exec(l, rest, "User")
        /\ reqUser' = Param(l)
        /\ ev' = <<Reply(ctl, 331)>>
        /\ Handled
        /\ UNCHANGED <<user, namePrefix, renameFrom, dataConn, socks, ctl>>

\* a variant: the failure path also takes over the requested user
PassExecuteSetsUser(ru, u, param, ans, dc, ss, c) ==
    IF ans # "true"
    THEN [user |-> ru, reqUser |-> ru, ctl |-> "closed",
          socks |-> ConnClose(dc, ss).socks,
          ev |-> <<Driver("Authenticate", <<ru, param>>), Reply(c, 530),
                   Reply(c, 221)>> \o ConnClose(dc, ss).ev]
    ELSE [user |-> ru, reqUser |-> Empty, ctl |-> c, socks |-> ss,
          ev |-> <<Driver("Authenticate", <<ru, param>>), Reply(c, 230)>>]

\* commandPass.Execute, ans being the driver's answer to Authenticate
PassExecute(ru, u, param, ans, dc, ss, c) ==
    IF ans # "true"
    THEN [user |-> u, reqUser |-> ru, ctl |-> "closed",
          socks |-> ConnClose(dc, ss).socks,
          ev |-> <<Driver("Authenticate", <<ru, param>>), Reply(c, 530),
                   Reply(c, 221)>> \o ConnClose(dc, ss).ev]
    ELSE [user |-> ru, reqUser |-> Empty, ctl |-> c, socks |-> ss,
          ev |-> <<Driver("Authenticate", <<ru, param>>), Reply(c, 230)>>]

commandPass ==
    pc = "read" /\ \E l \in LinesOf["Pass"], rest \in Rests, ans \in Bool3 :
        /\ Exec(l, rest, "Pass")
        /\ LET r == PassExecute(reqUser, user, Param(l), ans, dataConn, socks, ctl)
           IN  /\ user' = r.user
               /\ reqUser' = r.reqUser
               /\ ctl' = r.ctl
               /\ socks' = r.socks
               /\ ev' = r.ev
        /\ Handled
        /\ UNCHANGED <<namePrefix, renameFrom, dataConn>>

commandQuit ==
    pc = "read" /\ \E l \in LinesOf["Quit"], rest \in Rests :
        /\ Exec(l, rest, "Quit")
        /\ ctl' = "closed"
        /\ socks' = ConnClose(dataConn, socks).socks
        /\ ev' = ConnClose(dataConn, socks).ev
        /\ Handled
        /\ UNCHANGED fields


(***************************************************************************)
(* Handlers that ask the driver about a path                               *)
(***************************************************************************)
\* a variant: the directory is taken over whenever the driver returns no
\* error, before its answer is looked at
CwdExecuteBeforeAnswer(l, rest, h, param) ==
    \E ans \in Bool3 :
        /\ Exec(l, rest, h)
        /\ LET path == buildPath(namePrefix, param)
           IN  /\ ans # "err" => Depth(path) <= MaxDepth
               /\ namePrefix' = IF ans # "err" THEN path ELSE namePrefix
               /\ ev' = <<Driver("ChangeDir", <<path>>)>>
                        \o (CASE ans = "true" -> <<Reply(ctl, 250)>>
                              [] ans = "false" -> <<Reply(ctl, 550)>>
                              [] OTHER -> << >>)
        /\ Handled
        /\ UNCHANGED <<user, reqUser, renameFrom, dataConn, socks, ctl>>

\* commandCwd.Execute with parameter param; ans is ChangeDir's answer
CwdExecute(l, rest, h, param) ==
    \E ans \in Bool3 :
        /\ Exec(l, rest, h)
        /\ LET path == buildPath(namePrefix, param)
           IN  /\ ans = "true" => Depth(path) <= MaxDepth
               /\ namePrefix' = IF ans = "true" THEN path ELSE namePrefix
               /\ ev' = <<Driver("ChangeDir", <<path>>)>>
                        \o (CASE ans = "true" -> <<Reply(ctl, 250)>>
                              [] ans = "false" -> <<Reply(ctl, 550)>>
                              [] OTHER -> << >>)
        /\ Handled
        /\ UNCHANGED <<user, reqUser, renameFrom, dataConn, socks, ctl>>

commandCwd ==
    pc = "read" /\ \E l \in LinesOf["Cwd"], rest \in Rests : CwdExecute(l, rest, "Cwd", Param(l))

commandCdup ==
    pc = "read" /\ \E l \in LinesOf["Cdup"], rest \in Rests : CwdExecute(l, rest, "Cdup", DotDot)

\* the shape DELE, RMD, MKD and SIZE share: one driver call on the built
\* path, a reply for each answer, none when the driver returns an error
PathQuery(h, op, yes, no) ==
    pc = "read" /\ \E l \in LinesOf[h], rest \in Rests, ans \in Bool3 :
        /\ Exec(l, rest, h)
        /\ ev' = <<Driver(op, <<buildPath(namePrefix, Param(l))>>)>>
                 \o (CASE ans = "true" -> <<Reply(ctl, yes)>>
                       [] ans = "false" -> <<Reply(ctl, no)>>
                       [] OTHER -> << >>)
        /\ Handled /\ UNCHANGED <<fields, socks, ctl>>

commandDele == PathQuery("Dele", "DeleteFile", 250, 550)

commandRmd == PathQuery("Rmd", "DeleteDir", 250, 550)

commandMkd == PathQuery("Mkd", "MakeDir", 257, 550)

\* "true" stands for a size >= 0, "false" for a negative one
commandSize == PathQuery("Size", "Bytes", 213, 450)

commandMdtm ==
    pc = "read" /\ \E l \in LinesOf["Mdtm"], rest \in Rests, ans \in {"true", "err"} :
        /\ Exec(l, rest, "Mdtm")
        /\ ev' = <<Driver("ModifiedTime", <<buildPath(namePrefix, Param(l))>>),
                   Reply(ctl, IF ans = "true" THEN 213 ELSE 450)>>
        /\ Handled /\ UNCHANGED <<fields, socks, ctl>>

commandRnfr ==
    pc = "read" /\ \E l \in LinesOf["Rnfr"], rest \in Rests :
        /\ Exec(l, rest, "Rnfr")
        /\ renameFrom' = buildPath(namePrefix, Param(l))
        /\ ev' = <<Reply(ctl, 350)>>
        /\ Handled
        /\ UNCHANGED <<user, reqUser, namePrefix, dataConn, socks, ctl>>

commandRnto ==
    pc = "read" /\ \E l \in LinesOf["Rnto"], rest \in Rests, ans \in Bool3 :
        /\ Exec(l, rest, "Rnto")
        /\ ev' = IF renameFrom = Empty THEN <<Reply(ctl, 503)>>
                 ELSE <<Driver("Rename",
                                <<renameFrom, buildPath(namePrefix, Param(l))>>)>>
                      \o (CASE ans = "true" -> <<Reply(ctl, 250)>>
                            [] ans = "false" -> <<Reply(ctl, 550)>>
                            [] OTHER -> << >>)
        /\ Handled /\ UNCHANGED <<fields, socks, ctl>>


(***************************************************************************)
(* Data sockets                                                            *)
(***************************************************************************)
\* a data socket: kind "active" or "passive"; lst is the passive listener
\* ("none" before the helper has bound it, "bound", "closed" once
\* ListenAndServe has returned, "failed" when no port could be bound);
\* bport is the port the listener is bound to, port the field socket.port,
\* conn the field socket.conn ("nil", "open" or "closed")
ActiveSocket(port) ==
    [kind |-> "active", lst |-> "none", bport |-> 0, port |-> port, conn |-> "open"]

PassiveSocket ==
    [kind |-> "passive", lst |-> "none", bport |-> 0, port |-> 0, conn |-> "nil"]

\* a socket that holds nothing any more: its connection is closed, or its
\* helper gave up before binding.  Once the session has detached such a
\* socket nothing refers to it or acts on it, and the model drops it.
Inert(sk) == sk.conn = "closed" \/ sk.lst = "failed"

Remove(ss, i) == SubSeq(ss, 1, i - 1) \o SubSeq(ss, i + 1, Len(ss))

\* the head of ftpConn.newPassiveSocket and ftpConn.newActiveSocket: the
\* attached socket, if any, gets Close and is detached
Detach(dc, ss) ==
    [ev |-> IF dc # 0 THEN <<CloseEvent(ss, dc)>> ELSE << >>,
     socks |-> IF dc = 0 THEN ss
               ELSE IF Inert(SocketClose(ss[dc])) THEN Remove(ss, dc)
               ELSE [ss EXCEPT ![dc] = SocketClose(ss[dc])]]

\* ftpConn.newActiveSocket(host, port); dialled tells whether the dial
\* succeeded
newActiveSocket(dc, ss, host, port, dialled) ==
    [ev |-> Detach(dc, ss).ev \o <<Event("dial", IF dialled THEN "ok" ELSE "err",
                                         0, port, <<host>>)>>,
     socks |-> IF dialled THEN Append(Detach(dc, ss).socks, ActiveSocket(port))
               ELSE Detach(dc, ss).socks,
     dataConn |-> IF dialled THEN Len(Detach(dc, ss).socks) + 1 ELSE 0]

\* recover in Serve's deferred function, then ftpConn.Close
Recovered(pre, dc, ss) ==
    /\ pc' = "done"
    /\ ctl' = "closed"
    /\ ev' = pre \o <<Event("panic", "", 0, 0, << >>)>> \o ConnClose(dc, ss).ev
    /\ socks' = ConnClose(dc, ss).socks
    /\ calc' = calc

\* the tail PORT and EPRT share: dial, attach, 200 or 425
Dial(host, port) ==
    \E dialled \in BOOLEAN :
        LET r == newActiveSocket(dataConn, socks, host, port, dialled)
        IN  /\ dialled => Len(Detach(dataConn, socks).socks) < MaxSockets
            /\ dataConn' = r.dataConn
            /\ socks' = r.socks
            /\ ev' = r.ev \o <<ReplyPort(ctl, IF dialled THEN 200 ELSE 425,
                                         IF dialled THEN port ELSE 0)>>
            /\ Handled
            /\ UNCHANGED <<user, reqUser, namePrefix, renameFrom, ctl>>

JoinDots(nums) ==
    nums[1] \o <<".">> \o nums[2] \o <<".">> \o nums[3] \o <<".">> \o nums[4]

\* the port commandPort.Execute dials for the port fields one and two of
\* its parameter: uint16(portOne*256 + portTwo), or -1 when ParseUint
\* refuses a field
PortNumber(one, two) ==
    IF ParseUint16(one) < 0 \/ ParseUint16(two) < 0 THEN -1
    ELSE (ParseUint16(one) * 256 + ParseUint16(two)) % 65536

commandPort ==
    pc = "read" /\ \E l \in LinesOf["Port"], rest \in Rests :
        /\ Exec(l, rest, "Port")
        /\ LET nums == Split(Param(l), ",")
           IN  IF Len(nums) < 6
               THEN /\ ev' = <<Reply(ctl, 425)>>
                    /\ Handled /\ UNCHANGED <<fields, socks, ctl>>
               ELSE IF PortNumber(nums[5], nums[6]) < 0
               THEN /\ ev' = << >>
                    /\ Handled /\ UNCHANGED <<fields, socks, ctl>>
               ELSE Dial(JoinDots(nums), PortNumber(nums[5], nums[6]))

commandEprt ==
    pc = "read" /\ \E l \in LinesOf["Eprt"], rest \in Rests :
        /\ Exec(l, rest, "Eprt")
        /\ LET parts == Split(Param(l), Head(Param(l)))
           IN  IF Len(parts) < 2
               THEN Recovered(<< >>, dataConn, socks)
                    /\ UNCHANGED <<fields, retries>>
               ELSE IF ~Atoi(parts[2]).ok
               THEN /\ ev' = << >>
                    /\ Handled /\ UNCHANGED <<fields, socks, ctl>>
               ELSE IF Len(parts) < 4
               THEN Recovered(<< >>, dataConn, socks)
                    /\ UNCHANGED <<fields, retries>>
               ELSE IF ParseUint16(parts[4]) < 0
               THEN /\ ev' = << >>
                    /\ Handled /\ UNCHANGED <<fields, socks, ctl>>
               ELSE IF Atoi(parts[2]).v \notin {1, 2}
               THEN /\ ev' = <<Reply(ctl, 522)>>
                    /\ Handled /\ UNCHANGED <<fields, socks, ctl>>
               ELSE Dial(parts[3], ParseUint16(parts[4]))

\* PASV and EPSV up to the wait in newPassiveSocket: the attached socket is
\* closed and detached, a socket is made and its helper started
PassiveOpen ==
    pc = "read" /\ \E h \in {"Pasv", "Epsv"}, rest \in Rests :
      pc = "read" /\ \E l \in LinesOf[h] :
        /\ Exec(l, rest, h)
        /\ Len(Detach(dataConn, socks).socks) < MaxSockets
        /\ dataConn' = 0
        /\ socks' = Append(Detach(dataConn, socks).socks, PassiveSocket)
        /\ ev' = Detach(dataConn, socks).ev
        /\ pc' = "pasv"
        /\ UNCHANGED <<user, reqUser, namePrefix, renameFrom, ctl, retries, calc>>

\* a variant: the constructor returns without waiting for the port
PortSeenAtOnce(sk) == TRUE

\* the test of the loop in newPassiveSocket
PortSeen(sk) == sk.port > 0

\* the constructor returns, the socket is attached, 227 or 229 quotes
\* socket.Port()
PassiveReply ==
    /\ pc = "pasv"
    /\ PortSeen(socks[Len(socks)])
    /\ dataConn' = Len(socks)
    /\ ev' = ev \o <<IF commands[line.tok] = "Pasv"
                      THEN ReplyText(ctl, 227, socks[Len(socks)].port,
                                     PasvTarget(pasvAdvertisedIp, localIP,
                                                socks[Len(socks)].port))
                      ELSE ReplyText(ctl, 229, socks[Len(socks)].port,
                                     EpsvTarget(socks[Len(socks)].port))>>
    /\ pc' = "handled"
    /\ UNCHANGED <<user, reqUser, namePrefix, renameFrom, socks, ctl, buf,
                   retries, line, calc, seen>>

\* ListenAndServe, the helper of passive socket i: netListenerInRange
HelperBind(i) ==
    /\ socks[i].kind = "passive"
    /\ socks[i].lst = "none"
    /\ \E port \in Ports :
          socks' = [socks EXCEPT ![i].lst = "bound", ![i].bport = port]
    /\ UNCHANGED <<fields, ctl, buf, pc, retries, line, ev, calc, seen>>

\* every bind attempt failed: the helper returns and the port stays 0
HelperBindFail(i) ==
    /\ socks[i].kind = "passive"
    /\ socks[i].lst = "none"
    /\ IF i = dataConn \/ (pc = "pasv" /\ i = Len(socks))
       THEN socks' = [socks EXCEPT ![i].lst = "failed"] /\ dataConn' = dataConn
       ELSE /\ socks' = Remove(socks, i)
            /\ dataConn' = IF dataConn > i THEN dataConn - 1 ELSE dataConn
    /\ UNCHANGED <<user, reqUser, namePrefix, renameFrom, ctl, buf, pc, retries,
                   line, ev, calc, seen>>

\* socket.port = uint16(add.Port)
HelperPublish(i) ==
    /\ socks[i].lst = "bound"
    /\ socks[i].port = 0
    /\ socks' = [socks EXCEPT ![i].port = socks[i].bport]
    /\ UNCHANGED <<fields, ctl, buf, pc, retries, line, ev, calc, seen>>

\* AcceptTCP returns a client's connection; the deferred listener.Close
HelperAccept(i) ==
    /\ socks[i].lst = "bound"
    /\ socks[i].port # 0
    /\ socks' = [socks EXCEPT ![i].conn = "open", ![i].lst = "closed"]
    /\ UNCHANGED <<fields, ctl, buf, pc, retries, line, ev, calc, seen>>

Helper ==
    \E i \in 1..Len(socks) :
        \/ HelperBind(i)
        \/ HelperBindFail(i)
        \/ HelperPublish(i)
        \/ HelperAccept(i)


(***************************************************************************)
(* Transfers                                                               *)
(***************************************************************************)
\* regexp ^-[alt]+$ of LIST and NLST
ListFlags(param) ==
    /\ Len(param) >= 2
    /\ Head(param) = "-"
    /\ \A i \in 2..Len(param) : param[i] \in {"a", "l", "t"}

\* the reader RETR got from the driver is closed when its handler returns
ReaderClose(h) ==
    IF h = "Retr" THEN <<Event("reader_close", "", 0, 0, << >>)>> ELSE << >>

\* a variant: the data socket closed before the final reply is written
sendOutOfBandReaderCloseFirst(c, dc, ss, copied) ==
    [ev |-> <<Event("copy", copied, 0, 0, << >>),
              CloseEvent(ss, dc),
              Reply(c, IF copied \in {"err", "unavailable"} THEN 550 ELSE 226)>>,
     socks |-> [ss EXCEPT ![dc] = SocketClose(ss[dc])]]

\* ftpConn.sendOutOfBandReader from io.Copy on, with a socket attached:
\* copied is "ok" (the payload was written), "none" (an empty payload:
\* nothing was written), "err" (the write failed) or "unavailable" (the
\* passive socket's Write gave up waiting); the deferred Close runs last
sendOutOfBandReader(c, dc, ss, copied) ==
    [ev |-> <<Event("copy", copied, 0, 0, << >>),
              Reply(c, IF copied \in {"err", "unavailable"} THEN 550 ELSE 226),
              CloseEvent(ss, dc)>>,
     socks |-> [ss EXCEPT ![dc] = SocketClose(ss[dc])]]

\* what a Write on a connected data socket can return
WriteResults(sk) == IF sk.conn = "open" THEN {"ok", "err"} ELSE {"err"}

\* sendOutOfBandReader called by handler h after events pre, with a
\* payload that is empty or not
SendOutOfBand(h, pre, payload) ==
    IF dataConn = 0
    THEN Recovered(pre, dataConn, socks) /\ UNCHANGED <<fields, retries>>
    ELSE IF payload = "data" /\ socks[dataConn].kind = "passive"
    THEN /\ pc' = "copy"
         /\ retries' = 0
         /\ ev' = pre
         /\ UNCHANGED <<fields, socks, ctl, calc>>
    ELSE \E copied \in (IF payload = "data" THEN WriteResults(socks[dataConn])
                        ELSE {"none"}) :
            LET r == sendOutOfBandReader(ctl, dataConn, socks, copied)
            IN  /\ ev' = pre \o r.ev \o ReaderClose(h)
                /\ socks' = r.socks
                /\ Handled
                /\ UNCHANGED <<fields, ctl>>

\* a variant: the loop gives up one turn later
PassiveWriteFiveSleeps ==
    /\ pc = "copy"
    /\ commands[line.tok] # "Stor"
    /\ LET sk == socks[dataConn]
           h == commands[line.tok]
       IN  IF sk.conn # "nil"
           THEN \E copied \in WriteResults(sk) :
                   LET r == sendOutOfBandReader(ctl, dataConn, socks, copied)
                   IN  /\ ev' = ev \o r.ev \o ReaderClose(h)
                       /\ socks' = r.socks
                       /\ pc' = "handled"
                       /\ retries' = 0
           ELSE IF retries > 4
           THEN LET r == sendOutOfBandReader(ctl, dataConn, socks, "unavailable")
                IN  /\ ev' = ev \o r.ev \o ReaderClose(h)
                    /\ socks' = r.socks
                    /\ pc' = "handled"
                    /\ retries' = 0
           ELSE /\ ev' = Append(ev, Event("sleep", "", 500 * (retries + 1), 0, << >>))
                /\ retries' = retries + 1
                /\ UNCHANGED <<socks, pc>>
    /\ UNCHANGED <<fields, ctl, buf, line, calc, seen>>

\* ftpPassiveSocket.Write inside io.Copy: one turn of waitForOpenSocket's
\* loop, and the write once the accepted connection is there
PassiveWrite ==
    /\ pc = "copy"
    /\ commands[line.tok] # "Stor"
    /\ LET sk == socks[dataConn]
           h == commands[line.tok]
       IN  IF sk.conn # "nil"
           THEN \E copied \in WriteResults(sk) :
                   LET r == sendOutOfBandReader(ctl, dataConn, socks, copied)
                   IN  /\ ev' = ev \o r.ev \o ReaderClose(h)
                       /\ socks' = r.socks
                       /\ pc' = "handled"
                       /\ retries' = 0
           ELSE IF retries > 3
           THEN LET r == sendOutOfBandReader(ctl, dataConn, socks, "unavailable")
                IN  /\ ev' = ev \o r.ev \o ReaderClose(h)
                    /\ socks' = r.socks
                    /\ pc' = "handled"
                    /\ retries' = 0
           ELSE /\ ev' = Append(ev, Event("sleep", "", 500 * (retries + 1), 0, << >>))
                /\ retries' = retries + 1
                /\ UNCHANGED <<socks, pc>>
    /\ UNCHANGED <<fields, ctl, buf, line, calc, seen>>

commandRetr ==
    pc = "read" /\ \E l \in LinesOf["Retr"], rest \in Rests, got \in BOOLEAN, payload \in {"empty", "data"} :
        /\ Exec(l, rest, "Retr")
        /\ LET call == Driver("GetFile", <<buildPath(namePrefix, Param(l))>>)
           IN  IF ~got
               THEN /\ ev' = <<call, Reply(ctl, 551)>>
                    /\ Handled /\ UNCHANGED <<fields, socks, ctl>>
               ELSE IF ctl # "open"
               THEN /\ ev' = <<call, Reply(ctl, 150)>> \o ReaderClose("Retr")
                    /\ Handled /\ UNCHANGED <<fields, socks, ctl>>
               ELSE SendOutOfBand("Retr", <<call, Reply(ctl, 150)>>, payload)

\* LIST and NLST differ in the listing's format only
Listing(h) ==
    pc = "read" /\ \E l \in LinesOf[h], rest \in Rests, got \in BOOLEAN, payload \in {"empty", "data"} :
        /\ Exec(l, rest, h)
        /\ LET param == IF ListFlags(Param(l)) THEN Empty ELSE Param(l)
               call == Driver("DirContents", <<buildPath(namePrefix, param)>>)
           IN  IF ctl # "open"
               THEN /\ ev' = <<Reply(ctl, 150)>>
                    /\ Handled /\ UNCHANGED <<fields, socks, ctl>>
               ELSE IF ~got
               THEN /\ ev' = <<Reply(ctl, 150), call>>
                    /\ Handled /\ UNCHANGED <<fields, socks, ctl>>
               ELSE SendOutOfBand(h, <<Reply(ctl, 150), call>>, payload)

commandList == Listing("List")

commandNlst == Listing("Nlst")

\* the end of commandStor.Execute: PutFile's answer and the reply it gets
StorReply(c, ans) ==
    CASE ans = "true" -> <<Reply(c, 226)>>
      [] ans = "false" -> <<Reply(c, 450)>>
      [] OTHER -> << >>

\* STOR hands the data socket to driver.PutFile; when that socket is a
\* passive one the driver's Read goes through waitForOpenSocket (PassiveRead)
commandStor ==
    pc = "read" /\ \E l \in LinesOf["Stor"], rest \in Rests :
        /\ Exec(l, rest, "Stor")
        /\ LET call == Driver("PutFile", <<buildPath(namePrefix, Param(l))>>)
           IN  IF ctl # "open"
               THEN /\ ev' = <<Reply(ctl, 150)>>
                    /\ Handled /\ UNCHANGED <<fields, socks, ctl>>
               ELSE \/ \E ans \in Bool3 :
                       /\ ev' = <<Reply(ctl, 150), call>> \o StorReply(ctl, ans)
                       /\ Handled /\ UNCHANGED <<fields, socks, ctl>>
                    \/ /\ dataConn # 0
                       /\ socks[dataConn].kind = "passive"
                       /\ pc' = "copy"
                       /\ retries' = 0
                       /\ ev' = <<Reply(ctl, 150), call>>
                       /\ UNCHANGED <<fields, socks, ctl, calc>>

\* ftpPassiveSocket.Read called by the driver inside PutFile: one turn of
\* waitForOpenSocket's loop, and the read once the accepted connection is
\* there; then PutFile returns and STOR replies
PassiveRead ==
    /\ pc = "copy"
    /\ commands[line.tok] = "Stor"
    /\ LET sk == socks[dataConn]
       IN  IF sk.conn # "nil"
           THEN \E got \in WriteResults(sk), ans \in Bool3 :
                   /\ ev' = ev \o <<Event("read", got, 0, 0, << >>)>>
                               \o StorReply(ctl, ans)
                   /\ pc' = "handled"
                   /\ retries' = 0
           ELSE IF retries > 3
           THEN \E ans \in Bool3 :
                   /\ ev' = ev \o <<Event("read", "unavailable", 0, 0, << >>)>>
                               \o StorReply(ctl, ans)
                   /\ pc' = "handled"
                   /\ retries' = 0
           ELSE /\ ev' = Append(ev, Event("sleep", "", 500 * (retries + 1), 0, << >>))
                /\ retries' = retries + 1
                /\ pc' = pc
    /\ UNCHANGED <<fields, socks, ctl, buf, line, calc, seen>>

(***************************************************************************)
(* The specification                                                       *)
(***************************************************************************)
Next ==
    \/ Greet
    \/ GreetFail
    \/ ReadError
    \/ LoopBack
    \/ Reject
    \/ ReplyOnly
    \/ commandUser
    \/ commandPass
    \/ commandQuit
    \/ commandCwd
    \/ commandCdup
    \/ commandDele
    \/ commandRmd
    \/ commandMkd
    \/ commandSize
    \/ commandMdtm
    \/ commandRnfr
    \/ commandRnto
    \/ commandPort
    \/ commandEprt
    \/ PassiveOpen
    \/ PassiveReply
    \/ Helper
    \/ commandRetr
    \/ commandList
    \/ commandNlst
    \/ commandStor
    \/ PassiveWrite
    \/ PassiveRead

Spec == Init /\ [][Next]_vars

(***************************************************************************)
(* Close called from outside the worker, and what the scheduler guarantees *)
(***************************************************************************)
\* ftpConn.Close called by another goroutine while Serve runs: the control
\* connection is closed, then the data socket attached at that moment
Close ==
    /\ ctl = "open"
    /\ pc # "done"
    /\ ctl' = "closed"
    /\ socks' = ConnClose(dataConn, socks).socks
    /\ UNCHANGED <<fields, buf, pc, retries, line, ev, calc, seen>>

\* the steps of the goroutine that runs Serve
Worker ==
    \/ Greet \/ GreetFail \/ ReadError \/ LoopBack \/ Reject \/ ReplyOnly
    \/ commandUser \/ commandPass \/ commandQuit \/ commandCwd \/ commandCdup
    \/ commandDele \/ commandRmd \/ commandMkd \/ commandSize \/ commandMdtm
    \/ commandRnfr \/ commandRnto \/ commandPort \/ commandEprt
    \/ PassiveOpen \/ PassiveReply
    \/ commandRetr \/ commandList \/ commandNlst \/ commandStor \/ PassiveWrite
    \/ PassiveRead

\* the worker does not wait for the client: it is not in ReadString, or
\* ReadString has a line in the buffer, or the connection is closed
Runnable == pc # "read" \/ buf # << >> \/ ctl = "closed"

\* the steps of a helper that do not wait for a client: binding (or giving
\* up) and publishing the port
HelperRuns ==
    \E i \in 1..Len(socks) :
        HelperBind(i) \/ HelperBindFail(i) \/ HelperPublish(i)

CloseNext == Next \/ Close

\* a goroutine that can run does run; when a client sends or connects, and
\* when Close is called, is left open
CloseSpec ==
    /\ Init
    /\ [][CloseNext]_vars
    /\ WF_vars(Runnable /\ Worker)
    /\ WF_vars(HelperRuns)

(***************************************************************************)
(* Passive port selection taken by itself                                  *)
(***************************************************************************)
\* the lower ends of the configured ranges
PortMins == {0, 1, 2121, 65531}

\* max - min of the widest configured range
MaxWidth == 3

PortRanges ==
    {rg \in PortMins \X (0..65535) : rg[2] >= rg[1] /\ rg[2] - rg[1] <= MaxWidth}

\* netListenerInRange's loop runs while retries < ListenTries
ListenTries == 100

\* ListenAndServe(min, max) is started: retries := 1
PortInit ==
    /\ newFtpConn
    /\ \E rg \in PortRanges :
          calc = [f |-> "netListenerInRange", min |-> rg[1], max |-> rg[2],
                  retries |-> 1, port |-> 0, st |-> "start"]

\* one turn of netListenerInRange's loop: randomPort, then net.Listen, which
\* binds the port or fails; rand.Intn panics when its argument is not
\* positive, and nothing in the helper recovers
TryListen ==
    /\ calc.f = "netListenerInRange"
    /\ calc.st \in {"start", "retry"}
    /\ IF calc.min = 0 /\ calc.max = 0
       THEN \E ok \in BOOLEAN :
               calc' = [calc EXCEPT
                           !.port = randomPort(0, 0, 0),
                           !.retries = @ + 1,
                           !.st = IF ok THEN "bound"
                                  ELSE IF calc.retries + 1 < ListenTries
                                  THEN "retry" ELSE "failed"]
       ELSE IF IntnArg(calc.min, calc.max) <= 0
       THEN calc' = [calc EXCEPT !.st = "panic"]
       ELSE \E r \in Draws(IntnArg(calc.min, calc.max)), ok \in BOOLEAN :
               calc' = [calc EXCEPT
                           !.port = randomPort(calc.min, calc.max, r),
                           !.retries = @ + 1,
                           !.st = IF ok THEN "bound"
                                  ELSE IF calc.retries + 1 < ListenTries
                                  THEN "retry" ELSE "failed"]
    /\ UNCHANGED <<fields, socks, ctl, buf, pc, retries, line, ev, seen>>

PortNext == TryListen

PortSpec == PortInit /\ [][PortNext]_vars


(***************************************************************************)
(* buildPath taken by itself                                               *)
(***************************************************************************)
\* components of the longest parameter a client sends
MaxComps == 4

\* what stands between the slashes of a parameter
PathComps == {Empty, Dot, DotDot, <<"a">>, <<"b">>}

\* the parameters: up to MaxComps components joined by slashes
Filenames == {JoinSlash(cs) : cs \in SeqsUpTo(PathComps, MaxComps)}

\* the working directories a session can be in
Prefixes == {Root, <<SL, "a">>, <<SL, "a", SL, "b">>}

\* a handler is about to call buildPath(filename) in directory prefix
PathInit ==
    /\ newFtpConn
    /\ \E prefix \in Prefixes, filename \in Filenames :
          calc = [f |-> "buildPath", prefix |-> prefix, filename |-> filename,
                  once |-> Empty, twice |-> Empty, st |-> "start"]

\* buildPath(filename) with namePrefix = prefix
BuildOnce ==
    /\ calc.f = "buildPath"
    /\ calc.st = "start"
    /\ calc' = [calc EXCEPT !.once = buildPath(calc.prefix, calc.filename),
                            !.st = "built"]
    /\ UNCHANGED <<fields, socks, ctl, buf, pc, retries, line, ev, seen>>

\* buildPath on the path just built, with namePrefix = "/"
BuildAgain ==
    /\ calc.f = "buildPath"
    /\ calc.st = "built"
    /\ calc' = [calc EXCEPT !.twice = buildPath(Root, calc.once),
                            !.st = "rebuilt"]
    /\ UNCHANGED <<fields, socks, ctl, buf, pc, retries, line, ev, seen>>

PathNext == BuildOnce \/ BuildAgain

PathSpec == PathInit /\ [][PathNext]_vars

(***************************************************************************)
(* The 227 target taken by itself                                          *)
(***************************************************************************)
\* the greatest value of socket.port, a uint16
MaxPort == 65535

\* what passive_advertised_ip is configured to: nothing, or an address
AdvertisedIps == {Empty, <<"9", ".", "8", "0", ".", "7", ".", "6">>}

\* commandPasv.Execute holds a socket whose port is published
PasvInit ==
    /\ newFtpConn
    /\ \E port \in 1..MaxPort, adv \in AdvertisedIps :
          calc = [f |-> "commandPasv", advertised |-> adv, host |-> localIP,
                  port |-> port, target |-> Empty, st |-> "start"]

\* the target is formatted and written
PasvWrite ==
    /\ calc.f = "commandPasv"
    /\ calc.st = "start"
    /\ calc' = [calc EXCEPT
                   !.target = PasvTarget(calc.advertised, calc.host, calc.port),
                   !.st = "written"]
    /\ UNCHANGED <<fields, socks, ctl, buf, pc, retries, line, ev, seen>>

PasvNext == PasvWrite

PasvSpec == PasvInit /\ [][PasvNext]_vars

(***************************************************************************)
(* The port of PORT taken by itself                                        *)
(***************************************************************************)
\* the numbers a client writes into the two port fields
PortFieldValues == {0, 1, 2, 9, 10, 255, 256, 257, 65535, 65536}

\* the port fields: those numbers in decimal, an empty field and a field
\* that is no number
PortFields == {Itoa(n) : n \in PortFieldValues} \cup {Empty, <<"x">>}

\* commandPort.Execute holds a parameter of six fields, the last two being
\* one and two
PortArgInit ==
    /\ newFtpConn
    /\ \E one \in PortFields, two \in PortFields :
          calc = [f |-> "commandPort", one |-> one, two |-> two, port |-> 0,
                  st |-> "start"]

\* the fields are parsed; the handler returns the error, or computes the
\* port and dials it
PortDial ==
    /\ calc.f = "commandPort"
    /\ calc.st = "start"
    /\ calc' = IF PortNumber(calc.one, calc.two) < 0
               THEN [calc EXCEPT !.st = "rejected"]
               ELSE [calc EXCEPT !.st = "dialled",
                                 !.port = PortNumber(calc.one, calc.two)]
    /\ UNCHANGED <<fields, socks, ctl, buf, pc, retries, line, ev, seen>>

PortArgNext == PortDial

PortArgSpec == PortArgInit /\ [][PortArgNext]_vars

(***************************************************************************)
(* Properties                                                              *)
(***************************************************************************)
InTable(l) == l.tok \in DOMAIN commands

HandlerOf(l) == commands[l.tok]

IsReply(e, codes) == e.t = "reply" /\ e.n \in codes

HasReply(evs, codes) == \E i \in 1..Len(evs) : IsReply(evs[i], codes)

IsDataClose(e) == e.t = "close_data"

\* this step is receiveLine taking up line'
Dispatches == pc = "read" /\ line' # NoLine

\* the handling of line has come to an end
Finished == pc \in {"handled", "done"} /\ line # NoLine

\* line passed receiveLine's checks and its handler h ran (no handler among
\* those asked about here changes user)
Ran(hs) ==
    /\ Finished
    /\ InTable(line)
    /\ HandlerOf(line) \in hs
    /\ Gate(line.tok, Param(line), user) = "exec"

\* C1, as stated: a command that requires login, dispatched with any
\* parameter while user is empty, gets exactly the reply 530, calls no
\* driver and leaves the session's fields alone
C1_AuthGateAnyParam ==
    [][(Dispatches /\ InTable(line') /\ RequireAuth(HandlerOf(line')) /\ user = Empty)
        => (ev' = <<Reply(ctl, 530)>> /\ UNCHANGED <<fields, socks, ctl>>)]_vars

\* C1, amended: the same for every parameter that passes the parameter
\* check, which receiveLine makes first (a parameter that is not empty
\* after trimming, or any parameter when the command requires none)
C1_AuthGate ==
    [][(/\ Dispatches
        /\ InTable(line')
        /\ RequireAuth(HandlerOf(line'))
        /\ user = Empty
        /\ ~(RequireParam(HandlerOf(line')) /\ Param(line') = Empty))
        => (ev' = <<Reply(ctl, 530)>> /\ UNCHANGED <<fields, socks, ctl>>)]_vars

\* a login-requiring command with a parameter was refused with 530
C1_Witness ==
    /\ pc = "handled"
    /\ line.tok = "CWD"
    /\ Param(line) # Empty
    /\ user = Empty
    /\ ev = <<Reply("open", 530)>>

\* C2: a command that requires a parameter, dispatched with an empty one in
\* any session state, gets the reply 553, calls no driver and leaves the
\* session's fields alone
C2_ParamGate ==
    [][(/\ Dispatches
        /\ InTable(line')
        /\ RequireParam(HandlerOf(line'))
        /\ Param(line') = Empty)
        => (ev' = <<Reply(ctl, 553)>> /\ UNCHANGED <<fields, socks, ctl>>)]_vars

\* a logged-in session sent CWD with a blank parameter and got 553
C2_Witness ==
    /\ pc = "handled"
    /\ line.tok = "CWD"
    /\ line.arg # Empty
    /\ Param(line) = Empty
    /\ user # Empty
    /\ ev = <<Reply("open", 553)>>

\* C3: on an open session that has just handled a PASS, user is non-empty
\* exactly if that PASS was answered 230
C3_UserIffAuthenticated ==
    (pc = "handled" /\ line.tok = "PASS" /\ Param(line) # Empty /\ ctl = "open")
        => (user # Empty <=> HasReply(ev, {230}))

\* C4: once a logged-in session has executed a command other than RNFR,
\* renameFrom is empty
C4_RenameFromCleared ==
    (/\ pc = "handled"
     /\ InTable(line)
     /\ HandlerOf(line) # "Rnfr"
     /\ Gate(line.tok, Param(line), user) = "exec"
     /\ user # Empty)
        => renameFrom = Empty

\* C5: once QUIT or a failed PASS has closed the control connection, no
\* line is dispatched and no field of the session changes
C5_ClosedIsTerminal ==
    [][ctl = "closed" => (~Dispatches /\ UNCHANGED fields)]_vars

\* C6: a PASS the driver does not accept writes 530, then 221, then closes
\* the control connection, and leaves user as it was
C6_LoginFailure ==
    [][(/\ Dispatches
        /\ line'.tok = "PASS"
        /\ ev' # << >>
        /\ ev'[1].t = "driver"
        /\ ~HasReply(ev', {230}))
        => (/\ Len(ev') >= 4
            /\ ev'[2] = Reply(ctl, 530)
            /\ ev'[3] = Reply(ctl, 221)
            /\ ev'[4].t = "close_ctl"
            /\ \A i \in 5..Len(ev') : ev'[i].t # "reply"
            /\ ctl' = "closed"
            /\ user' = user)]_vars

\* a PASS after USER was refused: 530 and 221 went out, the connection is
\* closed, user is still empty
C6_Witness ==
    /\ pc = "handled"
    /\ line.tok = "PASS"
    /\ reqUser = Uname
    /\ user = Empty
    /\ ctl = "closed"
    /\ Len(ev) >= 4
    /\ ev[2] = Reply("open", 530)
    /\ ev[3] = Reply("open", 221)

TransferHandlers == {"Retr", "Stor", "List", "Nlst"}

FinalCodes == {226, 550, 450}

\* C7: when the handler of a transfer command has written its final reply
\* and returned, the data socket that was attached is closed
C7_SingleUseDataSocket ==
    (Ran(TransferHandlers) /\ HasReply(ev, FinalCodes) /\ dataConn # 0)
        => socks[dataConn].conn = "closed"

OpenHandlers == {"Pasv", "Epsv", "Port", "Eprt"}

\* socket i is neither attached nor the one PASV/EPSV is constructing
Detached(i) == i # dataConn /\ ~(pc = "pasv" /\ i = Len(socks))

\* C9: when PASV, EPSV, PORT or EPRT has constructed a socket, the socket
\* attached before has been closed and detached, and a failed construction
\* leaves no socket attached
C9_AtMostOneDataSocket ==
    (/\ pc \in {"handled", "pasv"}
     /\ InTable(line)
     /\ HandlerOf(line) \in OpenHandlers)
        => /\ \A i \in 1..Len(ev) : IsDataClose(ev[i]) => ev[i].op = "closed"
           /\ \A i \in 1..Len(socks) :
                 Detached(i) => (socks[i].conn = "closed" /\ socks[i].lst # "bound")
           /\ (\E i \in 1..Len(ev) : ev[i].t = "dial" /\ ev[i].op = "err")
                 => dataConn = 0

\* C10: a 227 or 229 is written only once the listener is bound and its
\* port published, it quotes the port the listener is bound to, and it can
\* be written as soon as the port is seen, whether or not a client has
\* connected
C10_PassiveReplyOrdering ==
    /\ \A i \in 1..Len(ev) :
          IsReply(ev[i], {227, 229}) =>
              /\ dataConn # 0
              /\ socks[dataConn].kind = "passive"
              /\ socks[dataConn].lst \in {"bound", "closed"}
              /\ socks[dataConn].port = socks[dataConn].bport
              /\ ev[i].p = socks[dataConn].bport
              /\ ev[i].p > 0
    /\ (pc = "pasv" /\ socks[Len(socks)].port > 0) => ENABLED PassiveReply

\* 227 has been written while the listener still waits for its client
C10_Witness ==
    /\ pc = "handled"
    /\ line.tok = "PASV"
    /\ HasReply(ev, {227})
    /\ dataConn # 0
    /\ socks[dataConn].lst = "bound"
    /\ socks[dataConn].conn = "nil"

\* C11: when every bind attempt of the passive listener has failed, PASV
\* and EPSV do not stay in the constructor: the handler can return (with
\* its 425) so that the session reads the next command
C11_PassiveOpenFailure ==
    (pc = "pasv" /\ socks[Len(socks)].lst = "failed")
        => ENABLED (Next /\ pc' = "handled")

\* C12: every port netListenerInRange asks net.Listen for lies in the
\* configured range [min, max], port selection does not crash, and under
\* the range [0, 0] the port asked for is 0
C12_PassivePortRange ==
    (calc.f = "netListenerInRange" /\ calc.st # "start")
        => /\ calc.st # "panic"
           /\ IF calc.min = 0 /\ calc.max = 0 THEN calc.port = 0
              ELSE calc.min <= calc.port /\ calc.port <= calc.max

\* the six fields of a 227 target, read as a client reads them
TargetFields(target) == Split(SubSeq(target, 2, Len(target) - 1), ",")

\* C13: the target of a 227 is (h1,h2,h3,h4,p1,p2) with p1 and p2 decimal
\* numbers in 0..255, 256*p1 + p2 the socket's port, and h1..h4 the quads
\* of the advertised IP when one is configured, of the listen IP otherwise
C13_PasvPortQuotation ==
    (calc.f = "commandPasv" /\ calc.st = "written") =>
        LET t == TargetFields(calc.target)
        IN  /\ Head(calc.target) = "(" /\ calc.target[Len(calc.target)] = ")"
            /\ Len(t) = 6
            /\ AllDigits(t[5]) /\ AllDigits(t[6])
            /\ DecVal(t[5], 0) <= 255 /\ DecVal(t[6], 0) <= 255
            /\ calc.port = 256 * DecVal(t[5], 0) + DecVal(t[6], 0)
            /\ SubSeq(t, 1, 4) =
                  Split(IF calc.advertised # Empty THEN calc.advertised
                        ELSE calc.host, ".")

\* the target of the greatest port has been written with an advertised IP
C13_Witness ==
    /\ calc.f = "commandPasv"
    /\ calc.st = "written"
    /\ calc.port = MaxPort
    /\ calc.advertised # Empty
    /\ TargetFields(calc.target)[5] = <<"2", "5", "5">>
    /\ TargetFields(calc.target)[1] = <<"9">>

\* the upper-case form of a token of the model
ToUpper(tok) == IF tok = "pwd" THEN "PWD" ELSE tok

\* C14: a line whose token, put in upper case, names a handler that only
\* replies, and which passes that handler's checks, gets the reply of that
\* handler, in whatever case the token was written
C14_CaseInsensitiveCommand ==
    (/\ Finished
     /\ ToUpper(line.tok) \in DOMAIN commands
     /\ commands[ToUpper(line.tok)] \in {"Allo", "Feat", "Noop", "Syst", "Pwd"}
     /\ Gate(ToUpper(line.tok), Param(line), user) = "exec")
        => ev = <<Reply(ctl, FixedReply(commands[ToUpper(line.tok)], Param(line)))>>

\* the Debugf of receiveLine: the command and its parameter, PASS masked
CommandLog(l) ==
    IF parseLine(l).command = "PASS" THEN <<"PASS", " ", "*", "*", "*">>
    ELSE <<parseLine(l).command, " ">> \o parseLine(l).param

\* the Debugf of writeMessage, made before the write is tried: the code
\* and the handler's fixed message
ReplyLogs(evs) ==
    [i \in 1..Len(SelectSeq(evs, LAMBDA e : e.t = "reply")) |->
        Itoa(SelectSeq(evs, LAMBDA e : e.t = "reply")[i].n) \o <<" ", "message">>]

\* commandPass.Execute returns an error when one of its writes failed
PassReturnsError(evs) ==
    \E i \in 1..Len(evs) : evs[i].t = "reply" /\ evs[i].op = "failed"

\* the Warnf of Serve for a line whose handling returned an error: the
\* line as it was read
WarnLog(l) == <<"failed to process line: ", l.tok, " ">> \o l.arg

\* every log call made while PASS line l was handled with events evs
PassLogCalls(l, evs) ==
    <<CommandLog(l)>> \o ReplyLogs(evs)
    \o (IF PassReturnsError(evs) THEN <<WarnLog(l)>> ELSE << >>)

Contains(text, part) ==
    \E i \in 1..(Len(text) - Len(part) + 1) :
        SubSeq(text, i, i + Len(part) - 1) = part

\* C15: no log call made while a PASS line is handled contains the
\* password
C15_PassMasking ==
    (Finished /\ line.tok = "PASS" /\ Param(line) # Empty)
        => \A i \in 1..Len(PassLogCalls(line, ev)) :
              ~Contains(PassLogCalls(line, ev)[i], Param(line))

\* an absolute canonical path: it begins with a slash, and unless it is the
\* root none of the components after that slash is empty, "." or ".."
Canonical(p) ==
    /\ p # Empty
    /\ Head(p) = SL
    /\ \/ p = Root
       \/ \A i \in 1..Len(Components(Tail(p))) :
              Components(Tail(p))[i] \notin {Empty, Dot, DotDot}

Parent(dir) ==
    IF dir = Root THEN Root
    ELSE LET cs == Components(Tail(dir))
         IN  <<SL>> \o JoinSlash(SubSeq(cs, 1, Len(cs) - 1))

\* from directory dir, one step up for each leading ".." of cs: the
\* directory reached and the components left
RECURSIVE Climb(_, _)
Climb(dir, cs) ==
    IF cs # << >> /\ Head(cs) = DotDot THEN Climb(Parent(dir), Tail(cs))
    ELSE [dir |-> dir, rest |-> cs]

\* where parameter filename starts from in directory prefix, and its
\* components
StartOf(prefix, filename) ==
    IF filename # Empty /\ Head(filename) = SL
    THEN [dir |-> Root, cs |-> Components(Tail(filename))]
    ELSE [dir |-> prefix, cs |-> Components(filename)]

\* C18: for a parameter with leading ".." components, absolute or
\* relative, in any working directory, buildPath gives a canonical path
\* under "/": the one reached by stepping up once for each leading "..",
\* staying at the root when there, and then following the rest; and ".."
\* in the directory "/", which is what CDUP asks for, gives "/"
C18_EscapeResistance ==
    (calc.f = "buildPath" /\ calc.st # "start") =>
        LET from == StartOf(calc.prefix, calc.filename)
            to == Climb(from.dir, from.cs)
        IN  /\ Head(from.cs) = DotDot =>
                  /\ Canonical(calc.once)
                  /\ calc.once = Clean(to.dir \o <<SL>> \o JoinSlash(to.rest))
            /\ (calc.prefix = Root /\ calc.filename = DotDot) => calc.once = Root

\* an absolute parameter with two leading ".." was built in a directory
\* two levels down
C18_Witness ==
    /\ calc.f = "buildPath"
    /\ calc.st = "built"
    /\ calc.prefix = <<SL, "a", SL, "b">>
    /\ calc.filename = <<SL, ".", ".", SL, ".", ".", SL, "a">>
    /\ calc.once = <<SL, "a">>

\* a parameter TYPE, MODE or STRU does not know
InvalidValue(h, param) ==
    \/ h = "Type" /\ param \notin {<<"A">>, <<"a">>, <<"I">>, <<"i">>}
    \/ h = "Mode" /\ param \notin {<<"S">>, <<"s">>}
    \/ h = "Stru" /\ param \notin {<<"F">>, <<"f">>}

\* a PORT parameter that is not six fields with numbers for the port, an
\* EPRT parameter that is not |protocol|host|port| with numbers for the
\* protocol and the port
BadAddress(h, param) ==
    \/ /\ h = "Port"
       /\ \/ Len(Split(param, ",")) < 6
          \/ ~AllDigits(Split(param, ",")[5])
          \/ ~AllDigits(Split(param, ",")[6])
    \/ /\ h = "Eprt"
       /\ \/ Len(Split(param, Head(param))) < 4
          \/ ~AllDigits(Split(param, Head(param))[2])
          \/ ~AllDigits(Split(param, Head(param))[4])

\* line l is a protocol error of the client in a session that has done a
\* RNFR (rf not empty) or not
Malformed(l, rf) ==
    \/ ~InTable(l)
    \/ /\ InTable(l)
       /\ \/ RequireParam(HandlerOf(l)) /\ Param(l) = Empty
          \/ HandlerOf(l) = "Rnto" /\ rf = Empty
          \/ InvalidValue(HandlerOf(l), Param(l))
          \/ Param(l) # Empty /\ BadAddress(HandlerOf(l), Param(l))

\* C19: a malformed line dispatched on an open session gets an error reply
\* (4xx or 5xx), and the session stays open and goes back to reading
C19_ProtocolErrorsKeepSession ==
    [][(Dispatches /\ ctl = "open" /\ Malformed(line', renameFrom))
        => (/\ pc' = "handled"
            /\ ctl' = "open"
            /\ \E i \in 1..Len(ev') : ev'[i].t = "reply" /\ ev'[i].n >= 400)]_vars

\* C20: when Serve has returned, by whatever way, the control connection
\* is closed and the data socket attached to the session, if any, is
\* closed: no connection of it is open and its listener is not bound
C20_SessionCleanup ==
    pc = "done" =>
        /\ ctl = "closed"
        /\ dataConn # 0 =>
              /\ socks[dataConn].conn = "closed"
              /\ socks[dataConn].lst # "bound"

\* C21: once Close has closed the control connection, whatever the worker
\* is doing then, Serve returns
C21_CancellationLive == (ctl = "closed") ~> (pc = "done")

\* C22: when the handling of a line other than QUIT returns to the read
\* loop on a session whose control connection was open until then, at
\* least one reply has been written on that connection, whatever the
\* driver answered
C22_OneRequestOneResponse ==
    [][(/\ pc' = "handled"
        /\ line' # NoLine
        /\ line'.tok # "QUIT"
        /\ ctl = "open")
        => \E i \in 1..Len(ev') : ev'[i].t = "reply" /\ ev'[i].op = "sent"]_vars

\* the calls of driver.Rename among events evs
RenameCalls(evs) == SelectSeq(evs, LAMBDA e : e.t = "driver" /\ e.op = "Rename")

\* C23: driver.Rename is called only by an RNTO whose immediately preceding
\* line executed RNFR, with the path that RNFR built as its first argument;
\* an RNTO in any other position gets 503 and calls no driver
C23_RenamePairing ==
    [][Dispatches =>
        /\ RenameCalls(ev') # << >> =>
              /\ InTable(line') /\ HandlerOf(line') = "Rnto"
              /\ seen.rnfr
              /\ \A i \in 1..Len(RenameCalls(ev')) :
                    RenameCalls(ev')[i].s[1] = renameFrom
        /\ (/\ InTable(line') /\ HandlerOf(line') = "Rnto"
            /\ Gate(line'.tok, Param(line'), user) = "exec"
            /\ ~seen.rnfr)
              => ev' = <<Reply(ctl, 503)>>]_vars

\* C24: driver.Authenticate is called only when a USER has executed on the
\* session since it opened and since the last executed PASS, and the user
\* name it is given is the parameter of the latest such USER, never the
\* empty string
C24_PassOnlyAfterUser ==
    [][Dispatches =>
        \A i \in 1..Len(ev') :
            (ev'[i].t = "driver" /\ ev'[i].op = "Authenticate") =>
                /\ seen.user
                /\ ev'[i].s[1] = seen.name
                /\ ev'[i].s[1] # Empty]_vars

\* C25: namePrefix changes only in the step that executes CWD, XCWD, CDUP
\* or XCUP with ChangeDir answering true (the reply is 250); it is then
\* the path buildPath gives for the parameter, ".." for CDUP and XCUP; in
\* every other step, ChangeDir answering false (550) or returning an error
\* among them, it stays as it is
C25_WorkingDirFrame ==
    [][LET changes == /\ Dispatches
                      /\ InTable(line')
                      /\ HandlerOf(line') \in {"Cwd", "Cdup"}
                      /\ Gate(line'.tok, Param(line'), user) = "exec"
                      /\ HasReply(ev', {250})
       IN  IF changes
           THEN namePrefix' = buildPath(namePrefix,
                                        IF HandlerOf(line') = "Cdup" THEN DotDot
                                        ELSE Param(line'))
           ELSE namePrefix' = namePrefix]_vars

\* from the root, CWD a was answered 250 and the directory is /a
C25_Witness ==
    /\ pc = "handled"
    /\ line = [tok |-> "XCWD", arg |-> <<"a">>]
    /\ ev = <<Driver("ChangeDir", <<<<SL, "a">>>>), Reply("open", 250)>>
    /\ namePrefix = <<SL, "a">>

\* the sleeps among events evs, in milliseconds
Sleeps(evs) ==
    [i \in 1..Len(SelectSeq(evs, LAMBDA e : e.t = "sleep")) |->
        SelectSeq(evs, LAMBDA e : e.t = "sleep")[i].n]

\* the result of io.Copy, or of the driver's Read, among events evs; ""
\* when there is none yet
Copied(evs) ==
    IF \E i \in 1..Len(evs) : evs[i].t \in {"copy", "read"}
    THEN SelectSeq(evs, LAMBDA e : e.t \in {"copy", "read"})[1].op
    ELSE ""

\* C26: a Read or Write on a passive socket has slept 500, 1000, ... ms,
\* once for each poll made so far, four times at most; each of its turns either
\* sleeps once more, leaving the socket alone, or ends the call: with the
\* read or write on the accepted connection as soon as a poll finds one, with
\* "data socket unavailable" when the poll after the fourth sleep finds
\* none; the connection is used only when a poll has found it
C26_BoundedWait ==
    [][pc = "copy" =>
        /\ retries \in 0..4
        /\ Sleeps(ev) = [i \in 1..retries |-> 500 * i]
        /\ ev' # ev =>
              IF socks[dataConn].conn # "nil"
              THEN pc' = "handled" /\ Copied(ev') \in {"ok", "err"}
              ELSE IF retries = 4
              THEN pc' = "handled" /\ Copied(ev') = "unavailable"
              ELSE /\ pc' = "copy"
                   /\ retries' = retries + 1
                   /\ Copied(ev') = ""
                   /\ socks' = socks]_vars

\* a RETR on a passive socket no client connected to slept four times and
\* failed with 550
C26_Witness ==
    /\ Ran({"Retr"})
    /\ Sleeps(ev) = <<500, 1000, 1500, 2000>>
    /\ Copied(ev) = "unavailable"
    /\ HasReply(ev, {550})

\* the protocol field of an EPRT parameter: what stands between the first
\* two delimiters
EprtProtocol(param) == Split(param, Head(param))[2]

\* C27: an EPRT whose protocol field is not 1 or 2 gets the reply 522 and
\* nothing else: nothing is dialled, and the data socket of the session is
\* not closed and not replaced, whatever the other fields hold
C27_EprtProtocolCheck ==
    [][(/\ Dispatches
        /\ InTable(line')
        /\ HandlerOf(line') = "Eprt"
        /\ Gate(line'.tok, Param(line'), user) = "exec"
        /\ ~(/\ Atoi(EprtProtocol(Param(line'))).ok
             /\ Atoi(EprtProtocol(Param(line'))).v \in {1, 2}))
        => (/\ ev' = <<Reply(ctl, 522)>>
            /\ dataConn' = dataConn
            /\ socks' = socks)]_vars

\* RETR, LIST or NLST came to sendOutOfBandReader and the data channel
\* failed it: no data socket was attached (the call on the nil socket
\* panics), or the passive socket's client never connected, or the write
\* failed, as it does on a socket an earlier transfer has closed
DataChannelFailed ==
    /\ Ran({"Retr", "List", "Nlst"})
    /\ \/ dataConn = 0 /\ \E i \in 1..Len(ev) : ev[i].t = "panic"
       \/ Copied(ev) \in {"unavailable", "err"}

\* C28: a RETR, LIST or NLST that finds no data socket configured, or whose
\* passive client never connects, or whose data socket an earlier transfer
\* has used, is answered 425, 450 or 550, and the session stays open and
\* goes back to reading
C28_DataFailureTransient ==
    DataChannelFailed =>
        /\ \E i \in 1..Len(ev) :
              IsReply(ev[i], {425, 450, 550}) /\ ev[i].op = "sent"
        /\ pc = "handled"
        /\ ctl = "open"

\* C29: for every PORT parameter the handler goes on to dial with, the
\* port dialled is 256*p1 + p2, p1 and p2 being the numbers in the two
\* port fields, and lies in 0..65535
C29_PortArithmetic ==
    (calc.f = "commandPort" /\ calc.st = "dialled") =>
        /\ calc.port = 256 * DecVal(calc.one, 0) + DecVal(calc.two, 0)
        /\ calc.port \in 0..65535

\* Close has been called on socket i: a later PASV, EPSV, PORT or EPRT has
\* detached it, or it is the attached socket of a session that was closed
CloseCalled(i) == Detached(i) \/ (ctl = "closed" /\ i = dataConn)

\* C30: a passive socket on which Close has been called, in whatever phase
\* it was then, has no listener that still accepts and holds no open
\* connection, then and ever after
C30_PassiveCloseReleases ==
    \A i \in 1..Len(socks) :
        (socks[i].kind = "passive" /\ CloseCalled(i)) =>
            /\ socks[i].lst # "bound"
            /\ socks[i].conn # "open"

\* C31: RETR, LIST and NLST write 226 only when the data socket of the
\* session holds an open connection at that moment (the active dial
\* succeeded, or the passive client has connected) and the payload has
\* been written to it in full, an empty payload included
C31_CompleteImpliesDelivery ==
    [][(/\ InTable(line')
        /\ HandlerOf(line') \in {"Retr", "List", "Nlst"}
        /\ HasReply(ev', {226})
        /\ ~HasReply(ev, {226}))
        => (/\ dataConn # 0
            /\ socks[dataConn].conn = "open"
            /\ Copied(ev') \in {"ok", "none"})]_vars

====
